---- MODULE Spec2Model ----
(***************************************************************************)
(* Model of ReelsMaker.start() and ReelsMaker.get_subway_surfers_videos()  *)
(* (src/app/reels_maker.py).  One job is followed from construction to its *)
(* terminal state; every await on a collaborator (script service, search,  *)
(* downloader, synthesizer, renderer) is a step whose outcome is drawn     *)
(* from the outcomes that collaborator can produce.                        *)
(*                                                                         *)
(* Durations are whole time units (the code uses floats; rounding of the   *)
(* float additions is not modelled).                                       *)
(***************************************************************************)
EXTENDS Integers, Sequences, FiniteSets, TLC

\* ------------------------------------------------------------------------
\* Bounds of the model
\* ------------------------------------------------------------------------
MaxSentences == 2      \* most sentences the split yields
MaxTerms == 2          \* most search terms the prompt service returns
MaxBgVideos == 2       \* largest value of the MAX_BG_VIDEOS environment cap

\* ------------------------------------------------------------------------
\* Program constants
\* ------------------------------------------------------------------------
max_clip_duration == 5
MinVideoBytes == 1024
NumSportsTerms == 8
MaxHashtags == 10
stop_after_attempt == 3     \* @retry(stop=stop_after_attempt(3), ...)
wait_fixed == 5             \* @retry(..., wait=wait_fixed(5), ...)

\* ------------------------------------------------------------------------
\* Value domains of the inputs
\* ------------------------------------------------------------------------
Missing == 0 - 1
NoResult == "None"
Raised == "raise"

LocalFiles == {"a.mp4", "b.mp4"}
Urls == {"http://u1", "https://u2"}
FileSizes == {Missing, 512, 1024, 2048}
SentDurations == {3, 4}
ClipDurations == {0, 3, 10}

\* str.startswith(('http://', 'https://'))
IsRemote(video_source) == video_source \in Urls

\* download_resource(cwd, url): the local path a URL is materialized at
PathOf(url) == IF url = "http://u1" THEN "cwd/u1.mp4" ELSE "cwd/u2.mp4"

DownloadPaths == {PathOf(u) : u \in Urls}

sports_search_terms == [k \in 1..NumSportsTerms |-> k]

\* seq[:n] for n >= 0
Take(seq, n) == SubSeq(seq, 1, IF n < Len(seq) THEN n ELSE Len(seq))

Min2(x, y) == IF x <= y THEN x ELSE y
Min3(x, y, z) == Min2(x, Min2(y, z))

RECURSIVE SumSeq(_)
SumSeq(s) == IF s = <<>> THEN 0 ELSE Head(s) + SumSeq(Tail(s))

Range(s) == {s[k] : k \in DOMAIN s}

RECURSIVE SelectPos(_, _)
\* the subsequence of s at the positions satisfying keep
SelectPos(s, keep) ==
    IF s = <<>> THEN <<>>
    ELSE LET rest == SelectPos(Tail(s), [k \in 1..(Len(s) - 1) |-> keep[k + 1]])
         IN IF keep[1] THEN <<Head(s)>> \o rest ELSE rest

\* all orderings of a finite set, as sequences without repetition
Orderings(S) ==
    {s \in [1..Cardinality(S) -> S] : \A x \in S : \E k \in DOMAIN s : s[k] = x}

\* ------------------------------------------------------------------------
\* Job Config (ReelsMakerConfig / BaseGeneratorConfig fields read by start)
\* ------------------------------------------------------------------------
VideoPathLists == {<<>>, <<"a.mp4">>, <<"a.mp4", "b.mp4">>}
SubwayVideoLists ==
    {<<>>, <<"a.mp4">>, <<"http://u1">>, <<"a.mp4", "http://u1">>,
     <<"http://u1", "https://u2">>}

ConfigSet ==
    {c \in [prompt : BOOLEAN, script : BOOLEAN, background_audio_url : BOOLEAN,
            video_paths : VideoPathLists,
            use_subway_surfers_background : BOOLEAN,
            subway_surfers_videos : SubwayVideoLists] :
        /\ c.subway_surfers_videos # <<>> =>
              (c.use_subway_surfers_background /\ c.video_paths = <<>>)
        /\ ~(c.prompt /\ c.script)
        /\ c.background_audio_url => (c.video_paths # <<>> \/ ~(c.prompt \/ c.script))}

VARIABLES
    config,               \* self.config
    max_videos,           \* int(os.getenv("MAX_BG_VIDEOS", ...))
    pc,                   \* position of start()
    err,                  \* the exception start() raised, "" while none
    background_music_path,
    sentences,
    subway_surfers_urls,
    valid_paths,
    tasks,                \* download tasks created by asyncio.create_task
    search_terms,
    searched,             \* outcome of each get_video_url call so far, in call order
    remote_urls,
    fsize,                \* size of the file at each download path (Missing: no file)
    video_paths,
    data,                 \* real_duration of each synthesized segment
    subtitles_path,
    video_duration,
    tot_dur,
    temp_videoclip,
    final_clips,
    clip_idx,             \* position of the for loop over temp_videoclip
    rendered,             \* number of generate_video calls
    calls,                \* number of calls made to each other collaborator
    synth_calls,          \* the synth_speech calls issued so far, in call order
    cues,                 \* the subtitle cues generate_subtitles produced
    s2i                   \* one call of PromptGenerator.sentences_to_images

\* what no step of start() changes
cfgVars == <<config, max_videos, s2i>>
bgVars == <<subway_surfers_urls, valid_paths, tasks, search_terms, searched,
            remote_urls, fsize, video_paths>>
narrVars == <<sentences, data, subtitles_path, synth_calls, cues>>
balVars == <<video_duration, tot_dur, temp_videoclip, final_clips, clip_idx>>
vars == <<cfgVars, pc, err, background_music_path, bgVars, narrVars, balVars, rendered,
          calls>>

Init ==
    /\ config \in ConfigSet
    /\ max_videos \in 0..MaxBgVideos
    /\ pc = "start"
    /\ err = ""
    /\ background_music_path = NoResult
    /\ sentences = <<>>
    /\ subway_surfers_urls = <<>>
    /\ valid_paths = <<>>
    /\ tasks = <<>>
    /\ search_terms = <<>>
    /\ searched = <<>>
    /\ remote_urls = <<>>
    /\ fsize = [p \in DownloadPaths |-> Missing]
    /\ video_paths = <<>>
    /\ data = <<>>
    /\ subtitles_path = NoResult
    /\ video_duration = 0
    /\ tot_dur = 0
    /\ temp_videoclip = <<>>
    /\ final_clips = <<>>
    /\ clip_idx = 0
    /\ rendered = 0
    /\ calls = [download_audio |-> 0, generate_script |-> 0,
                generate_search_terms |-> 0, generate_subtitles |-> 0]
    /\ synth_calls = <<>>
    /\ cues = <<>>
    /\ s2i = [pc |-> "idle", sentences |-> <<>>, attempts |-> <<>>, slept |-> 0,
              result |-> [sentences |-> <<>>, image_prompts |-> <<>>]]

\* raise: start() ends with the exception e
Fail(e) == pc' = "failed" /\ err' = e

\* ------------------------------------------------------------------------
\* start(): background music, script, sentences        (lines 141-162)
\* ------------------------------------------------------------------------
\* lines 144-148: download the background audio when a URL is configured
DownloadBackgroundAudio ==
    /\ pc = "start"
    /\ IF config.background_audio_url
       THEN \/ /\ background_music_path' = "cwd/music"
               /\ pc' = "script"
               /\ err' = err
            \/ /\ Fail("DownloadError")
               /\ UNCHANGED background_music_path
       ELSE /\ pc' = "script"
            /\ UNCHANGED <<err, background_music_path>>
    /\ calls' = IF config.background_audio_url
                THEN [calls EXCEPT !.download_audio = @ + 1] ELSE calls
    /\ UNCHANGED <<cfgVars, bgVars, narrVars, balVars, rendered>>

\* lines 150-156: script from the prompt, else the literal script, else raise
AcquireScript ==
    /\ pc = "script"
    /\ IF config.prompt
       THEN \/ pc' = "split" /\ err' = err
            \/ Fail("ScriptError")
       ELSE IF config.script
            THEN pc' = "split" /\ err' = err
            ELSE Fail("ValueError: No prompt or sentence provided")
    /\ calls' = IF config.prompt
                THEN [calls EXCEPT !.generate_script = @ + 1] ELSE calls
    /\ UNCHANGED <<cfgVars, background_music_path, bgVars, narrVars, balVars, rendered>>

\* lines 161-162: split the script and drop the empty sentences
SplitSentences ==
    /\ pc = "split"
    /\ \E n \in 0..MaxSentences : sentences' = [k \in 1..n |-> k]
    /\ pc' = "background"
    /\ UNCHANGED <<calls, cfgVars, err, background_music_path, bgVars, data, subtitles_path,
                   synth_calls, cues, balVars, rendered>>

\* ------------------------------------------------------------------------
\* start(): background acquisition                     (lines 164-243)
\* ------------------------------------------------------------------------
\* a mode choice that looks at the filler flag before the explicit paths
SelectBackgroundMode_fillerfirst ==
    /\ pc = "background"
    /\ IF config.use_subway_surfers_background
       THEN /\ video_paths' = video_paths
            /\ pc' = "subway_videos"
       ELSE IF config.video_paths # <<>>
            THEN /\ video_paths' = config.video_paths
                 /\ pc' = "check_paths"
            ELSE /\ video_paths' = video_paths
                 /\ pc' = "topic_terms"
    /\ UNCHANGED <<calls, cfgVars, err, background_music_path, subway_surfers_urls, valid_paths,
                   tasks, search_terms, searched, remote_urls, fsize, narrVars, balVars,
                   rendered>>

\* lines 164-168, 212: choose the background mode
SelectBackgroundMode ==
    /\ pc = "background"
    /\ IF config.video_paths # <<>>
       THEN /\ video_paths' = config.video_paths
            /\ pc' = "check_paths"
       ELSE /\ video_paths' = video_paths
            /\ pc' = IF config.use_subway_surfers_background
                     THEN "subway_videos" ELSE "topic_terms"
    /\ UNCHANGED <<calls, cfgVars, err, background_music_path, subway_surfers_urls, valid_paths,
                   tasks, search_terms, searched, remote_urls, fsize, narrVars, balVars,
                   rendered>>

\* get_subway_surfers_videos, lines 99-102 and 119-122: user videos are
\* returned as they are; otherwise the search loop over the curated terms begins
SubwayVideosEnter ==
    /\ pc = "subway_videos"
    /\ IF config.subway_surfers_videos # <<>>
       THEN /\ subway_surfers_urls' = config.subway_surfers_videos
            /\ pc' = "subway_sources"
            /\ UNCHANGED <<search_terms, remote_urls>>
       ELSE /\ search_terms' = Take(sports_search_terms, max_videos)
            /\ remote_urls' = <<>>
            /\ pc' = "subway_search"
            /\ UNCHANGED subway_surfers_urls
    /\ UNCHANGED <<calls, cfgVars, err, background_music_path, valid_paths, tasks, searched,
                   fsize, video_paths, narrVars, balVars, rendered>>

\* a filler search loop without the try/except around get_video_url
SubwaySearch_uncaught ==
    /\ pc = "subway_search"
    /\ Len(searched) < Len(search_terms)
    /\ \E r \in Urls \cup {NoResult, Raised} :
          /\ searched' = Append(searched, [term |-> search_terms[Len(searched) + 1],
                                           result |-> r])
          /\ remote_urls' = IF r \in Urls THEN Append(remote_urls, r) ELSE remote_urls
          /\ IF r = Raised THEN Fail("SearchError") ELSE UNCHANGED <<pc, err>>
    /\ UNCHANGED <<calls, cfgVars, background_music_path, subway_surfers_urls,
                   valid_paths, tasks, search_terms, fsize, video_paths, narrVars,
                   balVars, rendered>>

\* get_subway_surfers_videos, lines 122-132: one iteration of the search
\* loop; a search returning nothing or raising is logged and skipped
SubwaySearch ==
    /\ pc = "subway_search"
    /\ Len(searched) < Len(search_terms)
    /\ \E r \in Urls \cup {NoResult, Raised} :
          /\ searched' = Append(searched, [term |-> search_terms[Len(searched) + 1],
                                           result |-> r])
          /\ remote_urls' = IF r \in Urls THEN Append(remote_urls, r) ELSE remote_urls
    /\ UNCHANGED <<calls, cfgVars, pc, err, background_music_path, subway_surfers_urls,
                   valid_paths, tasks, search_terms, fsize, video_paths, narrVars,
                   balVars, rendered>>

\* get_subway_surfers_videos, lines 134-139: no URL found is an error
SubwaySearchDone ==
    /\ pc = "subway_search"
    /\ Len(searched) = Len(search_terms)
    /\ IF remote_urls = <<>>
       THEN /\ Fail("ValueError: No sports videos available")
            /\ UNCHANGED subway_surfers_urls
       ELSE /\ subway_surfers_urls' = remote_urls
            /\ pc' = "subway_sources"
            /\ err' = err
    /\ UNCHANGED <<calls, cfgVars, background_music_path, valid_paths, tasks, search_terms,
                   searched, remote_urls, fsize, video_paths, narrVars, balVars, rendered>>

\* lines 174-190: remote sources become download tasks, local sources are
\* kept when the file exists
SubwaySources ==
    /\ pc = "subway_sources"
    /\ \E exists \in [LocalFiles -> BOOLEAN] :
          LET src == subway_surfers_urls
              n == Len(src)
          IN /\ tasks' = [k \in 1..Len(SelectPos(src, [j \in 1..n |-> IsRemote(src[j])])) |->
                             [url |-> SelectPos(src, [j \in 1..n |-> IsRemote(src[j])])[k],
                              state |-> "pending"]]
             /\ valid_paths' = SelectPos(src, [j \in 1..n |->
                                   ~IsRemote(src[j]) /\ exists[src[j]]])
    /\ pc' = "subway_gather"
    /\ UNCHANGED <<calls, cfgVars, err, background_music_path, subway_surfers_urls, search_terms,
                   searched, remote_urls, fsize, video_paths, narrVars, balVars, rendered>>

\* download_resource running as a task: it ends by returning the local path
\* (having written some file, or none) or by raising
DownloadTaskFinish ==
    /\ pc \in {"subway_gather", "topic_gather"}
    /\ \E k \in DOMAIN tasks :
          /\ tasks[k].state = "pending"
          /\ \/ /\ tasks' = [tasks EXCEPT ![k].state = "done"]
                /\ \E sz \in FileSizes :
                      fsize' = [fsize EXCEPT ![PathOf(tasks[k].url)] = sz]
             \/ /\ tasks' = [tasks EXCEPT ![k].state = "raised"]
                /\ UNCHANGED fsize
    /\ UNCHANGED <<calls, cfgVars, pc, err, background_music_path, subway_surfers_urls,
                   valid_paths, search_terms, searched, remote_urls, video_paths,
                   narrVars, balVars, rendered>>

\* os.path.exists(path) and os.path.getsize(path) > 1024      (line 202)
ValidVideo(path) == fsize[path] # Missing /\ fsize[path] > MinVideoBytes

\* a wait that resumes with the first task that has ended
AllTasksEnded_first ==
    tasks = <<>> \/ \E k \in DOMAIN tasks : tasks[k].state # "pending"

\* line 194: await asyncio.gather(*tasks, return_exceptions=True)
AllTasksEnded == \A k \in DOMAIN tasks : tasks[k].state # "pending"

\* lines 193-211: gather(return_exceptions=True) resumes when every task has
\* ended; exceptions and files failing validation are left out
SubwayGather ==
    /\ pc = "subway_gather"
    /\ AllTasksEnded
    /\ LET local_paths == [k \in DOMAIN tasks |->
                              IF tasks[k].state = "done" THEN PathOf(tasks[k].url)
                              ELSE Raised]
           kept == SelectPos(local_paths, [k \in DOMAIN tasks |->
                       local_paths[k] # Raised /\ ValidVideo(local_paths[k])])
       IN /\ valid_paths' = valid_paths \o kept
          /\ video_paths' = video_paths \o (valid_paths \o kept)
    /\ pc' = "check_paths"
    /\ UNCHANGED <<calls, cfgVars, err, background_music_path, subway_surfers_urls, tasks,
                   search_terms, searched, remote_urls, fsize, narrVars, balVars, rendered>>

\* lines 213-221: search terms from the prompt service, at most max_hashtags
\* of them, of which the first max_videos are searched
TopicTerms ==
    /\ pc = "topic_terms"
    /\ \/ /\ \E n \in 0..MaxTerms :
                search_terms' = Take(Take([k \in 1..n |-> k], MaxHashtags), max_videos)
          /\ remote_urls' = <<>>
          /\ pc' = "topic_search"
          /\ err' = err
       \/ /\ Fail("SearchTermsError")
          /\ UNCHANGED <<search_terms, remote_urls>>
    /\ calls' = [calls EXCEPT !.generate_search_terms = @ + 1]
    /\ UNCHANGED <<cfgVars, background_music_path, subway_surfers_urls, valid_paths,
                   tasks, searched, fsize, video_paths, narrVars, balVars, rendered>>

\* lines 223-231: one iteration of the search loop; an empty result is
\* skipped, an exception of get_video_url is not caught
TopicSearch ==
    /\ pc = "topic_search"
    /\ Len(searched) < Len(search_terms)
    /\ \E r \in Urls \cup {NoResult, Raised} :
          /\ searched' = Append(searched, [term |-> search_terms[Len(searched) + 1],
                                           result |-> r])
          /\ remote_urls' = IF r \in Urls THEN Append(remote_urls, r) ELSE remote_urls
          /\ IF r = Raised THEN Fail("SearchError") ELSE UNCHANGED <<pc, err>>
    /\ UNCHANGED <<calls, cfgVars, background_music_path, subway_surfers_urls, valid_paths,
                   tasks, search_terms, fsize, video_paths, narrVars, balVars, rendered>>

\* a task list that issues every download a second time
TopicCreateTasks_twice ==
    /\ pc = "topic_search"
    /\ Len(searched) = Len(search_terms)
    /\ tasks' = [k \in DOMAIN (remote_urls \o remote_urls) |->
                    [url |-> (remote_urls \o remote_urls)[k], state |-> "pending"]]
    /\ pc' = "topic_gather"
    /\ UNCHANGED <<calls, cfgVars, err, background_music_path, subway_surfers_urls, valid_paths,
                   search_terms, searched, remote_urls, fsize, video_paths, narrVars,
                   balVars, rendered>>

\* lines 233-237: one download task per found URL
TopicCreateTasks ==
    /\ pc = "topic_search"
    /\ Len(searched) = Len(search_terms)
    /\ tasks' = [k \in DOMAIN remote_urls |-> [url |-> remote_urls[k], state |-> "pending"]]
    /\ pc' = "topic_gather"
    /\ UNCHANGED <<calls, cfgVars, err, background_music_path, subway_surfers_urls, valid_paths,
                   search_terms, searched, remote_urls, fsize, video_paths, narrVars,
                   balVars, rendered>>

\* a collection that takes what is there as soon as one download is done
TopicGather_anydone ==
    /\ pc = "topic_gather"
    /\ IF \E k \in DOMAIN tasks : tasks[k].state = "raised"
       THEN /\ Fail("DownloadError")
            /\ UNCHANGED video_paths
       ELSE /\ \E k \in DOMAIN tasks : tasks[k].state = "done"
            /\ \E order \in Orderings({PathOf(tasks[k].url) :
                                         k \in {j \in DOMAIN tasks : tasks[j].state = "done"}}) :
                  video_paths' = video_paths \o order
            /\ pc' = "check_paths"
            /\ err' = err
    /\ UNCHANGED <<calls, cfgVars, background_music_path, subway_surfers_urls, valid_paths,
                   tasks, search_terms, searched, remote_urls, fsize, narrVars, balVars,
                   rendered>>

\* lines 239-240: gather() without return_exceptions re-raises the first
\* exception of a task; otherwise the distinct paths are appended in the
\* iteration order of a set, which is not fixed
TopicGather ==
    /\ pc = "topic_gather"
    /\ IF \E k \in DOMAIN tasks : tasks[k].state = "raised"
       THEN /\ Fail("DownloadError")
            /\ UNCHANGED video_paths
       ELSE /\ \A k \in DOMAIN tasks : tasks[k].state = "done"
            /\ \E order \in Orderings({PathOf(tasks[k].url) : k \in DOMAIN tasks}) :
                  video_paths' = video_paths \o order
            /\ pc' = "check_paths"
            /\ err' = err
    /\ UNCHANGED <<calls, cfgVars, background_music_path, subway_surfers_urls, valid_paths,
                   tasks, search_terms, searched, remote_urls, fsize, narrVars, balVars,
                   rendered>>

\* an empty pool that is reported but does not end the job
CheckVideoPaths_continue ==
    /\ pc = "check_paths"
    /\ pc' = "synth"
    /\ err' = IF Len(video_paths) = 0
              THEN "ValueError: No video paths found available" ELSE err
    /\ UNCHANGED <<calls, cfgVars, background_music_path, bgVars, narrVars, balVars,
                   rendered>>

\* lines 242-243
CheckVideoPaths ==
    /\ pc = "check_paths"
    /\ IF Len(video_paths) = 0
       THEN Fail("ValueError: No video paths found available")
       ELSE pc' = "synth" /\ err' = err
    /\ UNCHANGED <<calls, cfgVars, background_music_path, bgVars, narrVars, balVars, rendered>>

\* ------------------------------------------------------------------------
\* start(): narration and subtitles                    (lines 245-267)
\* ------------------------------------------------------------------------
\* a loop that takes the sentences from the last to the first
NextSentence_reversed == sentences[Len(sentences) - Len(synth_calls)]

\* line 248: for sentence in sentences
NextSentence == sentences[Len(synth_calls) + 1]

\* lines 248-249: synth_speech is called for the next sentence and awaited
SynthSpeech ==
    /\ pc = "synth"
    /\ Len(data) < Len(sentences)
    /\ \A k \in DOMAIN synth_calls : synth_calls[k].state # "pending"
    /\ synth_calls' = Append(synth_calls, [sentence |-> NextSentence,
                                           state |-> "pending",
                                           real_duration |-> 0])
    /\ UNCHANGED <<calls, cfgVars, pc, err, background_music_path, bgVars, sentences,
                   data, subtitles_path, cues, balVars, rendered>>

\* lines 249-254: the awaited call returns the audio, whose duration is
\* measured and appended to data, or it raises
SynthSpeechReturn ==
    /\ pc = "synth"
    /\ synth_calls # <<>>
    /\ synth_calls[Len(synth_calls)].state = "pending"
    /\ \/ /\ \E d \in SentDurations :
                /\ data' = Append(data, d)
                /\ synth_calls' = [synth_calls EXCEPT ![Len(synth_calls)] =
                                     [@ EXCEPT !.state = "done", !.real_duration = d]]
          /\ UNCHANGED <<pc, err>>
       \/ /\ Fail("SynthError")
          /\ synth_calls' = [synth_calls EXCEPT ![Len(synth_calls)].state = "raised"]
          /\ UNCHANGED data
    /\ UNCHANGED <<calls, cfgVars, background_music_path, bgVars, sentences,
                   subtitles_path, cues, balVars, rendered>>

\* the durations taken in the reverse of the segment order
SegmentDurations_reversed == [k \in DOMAIN data |-> data[Len(data) + 1 - k]]

\* line 266: [item.synth_clip.real_duration for item in data]
SegmentDurations == [k \in DOMAIN data |-> data[k]]

\* generate_subtitles: cue i spans from the sum of the durations before i to
\* the sum of the durations up to i
SubtitleCues(sents, durations) ==
    [i \in DOMAIN sents |->
        [text |-> sents[i],
         start |-> SumSeq(SubSeq(durations, 1, i - 1)),
         end |-> SumSeq(SubSeq(durations, 1, i))]]

\* a loop over the sentences that is left after its first segment
SubtitlesReady_early == Len(data) >= 1 \/ Len(sentences) = 0

\* lines 248-264: the subtitles are generated after the loop over the
\* sentences has ended
SubtitlesReady == Len(data) = Len(sentences)

\* lines 257-267: the segments are concatenated by the ffmpeg binding, which
\* is not part of the repository and may refuse its input (an empty list of
\* segments, say); then the subtitles are generated from the sentences and
\* the durations of the segments; lists of different lengths are refused
GenerateSubtitles ==
    /\ pc = "synth"
    /\ SubtitlesReady
    /\ \A k \in DOMAIN synth_calls : synth_calls[k].state # "pending"
    /\ \/ /\ Fail("ConcatError")
          /\ UNCHANGED <<calls, subtitles_path, cues>>
       \/ /\ calls' = [calls EXCEPT !.generate_subtitles = @ + 1]
          /\ IF Len(sentences) # Len(SegmentDurations)
             THEN /\ Fail("PreconditionError: sentences and durations differ in length")
                  /\ UNCHANGED <<subtitles_path, cues>>
             ELSE \/ /\ subtitles_path' = "subtitles"
                     /\ cues' = SubtitleCues(sentences, SegmentDurations)
                     /\ pc' = "balance"
                     /\ err' = err
                  \/ /\ Fail("SubtitleError")
                     /\ UNCHANGED <<subtitles_path, cues>>
    /\ UNCHANGED <<cfgVars, background_music_path, bgVars, sentences, data,
                   synth_calls, balVars, rendered>>

\* ------------------------------------------------------------------------
\* start(): clip duration balancing and render         (lines 269-313)
\* ------------------------------------------------------------------------
\* lines 270-281: the narration total and the clip pool; the duration of
\* each file is measured when its FileClip is built
PrepareBalance ==
    /\ pc = "balance"
    /\ video_duration' = SumSeq(data)
    /\ tot_dur' = 0
    /\ \E real_duration \in [Range(video_paths) -> ClipDurations] :
          temp_videoclip' = [k \in DOMAIN video_paths |->
                                [filepath |-> video_paths[k],
                                 real_duration |-> real_duration[video_paths[k]]]]
    /\ final_clips' = <<>>
    /\ pc' = "while"
    /\ UNCHANGED <<calls, cfgVars, err, background_music_path, bgVars, narrVars, clip_idx,
                   rendered>>

\* a loop test that already stops within one clip of the target
LoopContinues_early == tot_dur + max_clip_duration < video_duration

\* a loop test that lets the body run once the target is met
LoopContinues_dowhile == tot_dur <= video_duration

\* line 283: while tot_dur < video_duration
LoopContinues == tot_dur < video_duration

\* line 283: the loop test; a true test starts a pass over temp_videoclip
WhileTest ==
    /\ pc = "while"
    /\ IF LoopContinues
       THEN /\ clip_idx' = 1
            /\ pc' = IF temp_videoclip = <<>> THEN "while" ELSE "for"
       ELSE /\ pc' = "render"
            /\ UNCHANGED clip_idx
    /\ UNCHANGED <<calls, cfgVars, err, background_music_path, bgVars, narrVars, video_duration,
                   tot_dur, temp_videoclip, final_clips, rendered>>

\* a sub-clip duration that forgets the remaining need
SubclipDuration_noremaining(clip) == Min2(max_clip_duration, clip.real_duration)

\* lines 285-288
SubclipDuration(clip) ==
    Min3(max_clip_duration, video_duration - tot_dur, clip.real_duration)

\* a loop that gains at least one unit per pass has ended before it has
\* appended this many sub-clips; final_clips records no more than these
PassLimit == Len(temp_videoclip) * (video_duration + 1)

\* a for loop that keeps cutting from the first clip of the pool
CurrentClip_first == temp_videoclip[1]

\* line 284: for clip in temp_videoclip
CurrentClip == temp_videoclip[clip_idx]

\* lines 284-299: the body of the for loop for the clip at clip_idx
BalanceStep ==
    /\ pc = "for"
    /\ LET clip == CurrentClip
           subclip_duration == SubclipDuration(clip)
       IN /\ final_clips' = IF Len(final_clips) < PassLimit
                             THEN Append(final_clips, [filepath |-> clip.filepath,
                                                       t |-> subclip_duration])
                             ELSE final_clips
          /\ tot_dur' = tot_dur + subclip_duration
          /\ IF tot_dur + subclip_duration >= video_duration
                  \/ clip_idx = Len(temp_videoclip)
             THEN pc' = "while" /\ UNCHANGED clip_idx
             ELSE pc' = pc /\ clip_idx' = clip_idx + 1
    /\ UNCHANGED <<calls, cfgVars, err, background_music_path, bgVars, narrVars, video_duration,
                   temp_videoclip, rendered>>

\* lines 301-313: the renderer is called with the sub-clips
GenerateVideo ==
    /\ pc = "render"
    /\ rendered' = rendered + 1
    /\ \/ pc' = "done" /\ err' = err
       \/ Fail("RenderError")
    /\ UNCHANGED <<calls, cfgVars, background_music_path, bgVars, narrVars, balVars>>

Next ==
    \/ DownloadBackgroundAudio
    \/ AcquireScript
    \/ SplitSentences
    \/ SelectBackgroundMode
    \/ SubwayVideosEnter
    \/ SubwaySearch
    \/ SubwaySearchDone
    \/ SubwaySources
    \/ DownloadTaskFinish
    \/ SubwayGather
    \/ TopicTerms
    \/ TopicSearch
    \/ TopicCreateTasks
    \/ TopicGather
    \/ CheckVideoPaths
    \/ SynthSpeech
    \/ SynthSpeechReturn
    \/ GenerateSubtitles
    \/ PrepareBalance
    \/ WhileTest
    \/ BalanceStep
    \/ GenerateVideo

Spec == Init /\ [][Next]_vars

\* ------------------------------------------------------------------------
\* PromptGenerator.sentences_to_images under its retry decorator
\* (src/app/prompt_gen.py, lines 228-283)
\* ------------------------------------------------------------------------
startVars == <<config, max_videos, pc, err, background_music_path, bgVars, narrVars,
               balVars, rendered, calls>>

\* a caller passes a list of sentences
S2ICall ==
    /\ s2i.pc = "idle"
    /\ \E n \in 0..MaxSentences :
          s2i' = [s2i EXCEPT !.pc = "attempt", !.sentences = [k \in 1..n |-> k]]
    /\ UNCHANGED startVars

\* a count check that accepts any count reaching the sentence count
CountMatches_atleast(count, sents) == count >= Len(sents)

\* line 275: len(data.image_prompts) != len(sentences) raises
CountMatches(count, sents) == count = Len(sents)

\* lines 229-283, one attempt: the chain returns some number of descriptions
\* or raises (Missing); a matching count is returned paired with the
\* sentences, anything else is an exception, after which the decorator
\* stops at the last attempt and waits otherwise
S2IAttempt ==
    /\ s2i.pc = "attempt"
    /\ \E count \in {Missing} \cup (0..(MaxSentences + 1)) :
          LET tried == Append(s2i.attempts, count)
          IN IF count # Missing /\ CountMatches(count, s2i.sentences)
             THEN s2i' = [s2i EXCEPT !.pc = "returned", !.attempts = tried,
                                     !.result = [sentences |-> s2i.sentences,
                                                 image_prompts |-> [k \in 1..count |-> k]]]
             ELSE IF Len(tried) >= stop_after_attempt
                  THEN s2i' = [s2i EXCEPT !.pc = "raised", !.attempts = tried]
                  ELSE s2i' = [s2i EXCEPT !.pc = "wait", !.attempts = tried]
    /\ UNCHANGED startVars

\* a retry that starts the next attempt without sleeping
S2IWait_nosleep ==
    /\ s2i.pc = "wait"
    /\ s2i' = [s2i EXCEPT !.pc = "attempt"]
    /\ UNCHANGED startVars

\* wait=wait_fixed(5): the sleep before the next attempt
S2IWait ==
    /\ s2i.pc = "wait"
    /\ s2i' = [s2i EXCEPT !.pc = "attempt", !.slept = @ + wait_fixed]
    /\ UNCHANGED startVars

RetryInit ==
    /\ Init
    /\ config = CHOOSE c \in ConfigSet : c.prompt
    /\ max_videos = 0

RetryNext ==
    \/ S2ICall
    \/ S2IAttempt
    \/ S2IWait

RetrySpec == RetryInit /\ [][RetryNext]_vars

\* start() is a coroutine the event loop keeps running, and every awaited
\* collaborator call eventually returns or raises
FairSpec == Spec /\ WF_vars(Next)

TypeOK ==
    /\ pc \in {"start", "script", "split", "background", "subway_videos",
               "subway_search", "subway_sources", "subway_gather", "topic_terms",
               "topic_search", "topic_gather", "check_paths", "synth", "balance",
               "while", "for", "render", "done", "failed"}
    /\ tot_dur \in Nat
    /\ video_duration \in Nat

\* ------------------------------------------------------------------------
\* Properties
\* ------------------------------------------------------------------------
SumDur(clips) == SumSeq([k \in DOMAIN clips |-> clips[k].t])

\* the measured duration of the pool file a sub-clip was cut from
PoolDuration(path) ==
    (CHOOSE c \in Range(temp_videoclip) : c.filepath = path).real_duration

Durations(clips) == [k \in DOMAIN clips |-> clips[k].t]

\* C1: for a non-empty narration duration list and a non-empty pool, the
\* sub-clips handed to the renderer sum to S with
\* sum(D) <= S < sum(D) + max_clip_duration.
C1_PlanCoversNarration ==
    (pc = "render" /\ data # <<>> /\ video_paths # <<>>) =>
        /\ SumSeq(data) <= SumDur(final_clips)
        /\ SumDur(final_clips) < SumSeq(data) + max_clip_duration

C1_Witness ==
    /\ pc = "render"
    /\ Len(data) = 2
    /\ SumSeq(data) = 8
    /\ Durations(final_clips) = <<5, 3>>

\* C2: every sub-clip has duration min(max_clip_duration, T - accumulated
\* so far, duration of its clip); the accumulated duration never exceeds T
\* and equals T when the loop has ended.
C2_SubclipDurationExact ==
    (pc \in {"while", "for", "render"}) =>
        /\ \A k \in DOMAIN final_clips :
              final_clips[k].t =
                  Min3(max_clip_duration,
                       video_duration - SumDur(SubSeq(final_clips, 1, k - 1)),
                       PoolDuration(final_clips[k].filepath))
        /\ tot_dur <= video_duration
        /\ (Len(final_clips) < PassLimit => tot_dur = SumDur(final_clips))
        /\ (pc = "render" => tot_dur = video_duration)

C2_Witness ==
    /\ pc = "render"
    /\ video_duration = 7
    /\ [k \in DOMAIN temp_videoclip |-> temp_videoclip[k].real_duration] = <<3, 10>>
    /\ Durations(final_clips) = <<3, 4>>

\* C3: for every non-empty pool and every target the balancer loop
\* terminates, pools with clips of measured duration 0 included, and no
\* sub-clip is appended once the accumulated duration has reached the target.
C3_BalancerTerminates ==
    /\ (pc = "balance") ~> (pc = "render")
    /\ [](pc \in {"while", "for", "render"} =>
            \A k \in 1..(Len(final_clips) - 1) :
                SumDur(SubSeq(final_clips, 1, k)) < video_duration)

\* C4: the k-th sub-clip (k = 0, 1, ...) is cut from pool entry k mod n.
C4_RoundRobin ==
    (pc \in {"while", "for", "render"}) =>
        \A k \in DOMAIN final_clips :
            final_clips[k].filepath =
                temp_videoclip[((k - 1) % Len(temp_videoclip)) + 1].filepath

C4_Witness ==
    /\ pc = "render"
    /\ Len(temp_videoclip) = 2
    /\ Durations(final_clips) = <<3, 3, 2>>
    /\ final_clips[3].filepath = temp_videoclip[1].filepath
    /\ final_clips[2].filepath = temp_videoclip[2].filepath
    /\ temp_videoclip[1].filepath # temp_videoclip[2].filepath

\* a file the spec counts as usable: it exists and has at least 1 KiB
Usable(path) == fsize[path] # Missing /\ fsize[path] >= MinVideoBytes

NoResourceErrors ==
    {"ValueError: No sports videos available",
     "ValueError: No video paths found available"}

FillerMode ==
    config.video_paths = <<>> /\ config.use_subway_surfers_background

FillerSearchMode == FillerMode /\ config.subway_surfers_videos = <<>>

TopicMode ==
    config.video_paths = <<>> /\ ~config.use_subway_surfers_background

PastAcquisition == pc \in {"synth", "balance", "while", "for", "render", "done"}

\* C6: in filler mode and in topic-search mode alike, a download that
\* raises does not fail the job while a sibling download has produced a
\* usable file.
C6_DownloadFailureTolerated ==
    ~(/\ pc = "failed"
      /\ err = "DownloadError"
      /\ \E k \in DOMAIN tasks : tasks[k].state = "raised"
      /\ \E k \in DOMAIN tasks :
            tasks[k].state = "done" /\ Usable(PathOf(tasks[k].url)))

\* C7: no downloaded file that is missing or smaller than 1024 bytes is in
\* the pool handed to the balancer, in filler mode and topic-search mode.
C7_NoUndersizedFileInPool ==
    PastAcquisition =>
        \A p \in Range(video_paths) \cap DownloadPaths : Usable(p)

\* C8: in topic-search mode a search that raises is skipped; it never
\* fails the job when another term has yielded a resource.
C8_TopicSearchFailureSkipped ==
    ~(/\ TopicMode
      /\ pc = "failed"
      /\ err = "SearchError"
      /\ remote_urls # <<>>)

\* the URLs among the results of the searches made, in call order
FoundUrls ==
    SelectPos([k \in DOMAIN searched |-> searched[k].result],
              [k \in DOMAIN searched |-> searched[k].result \in Urls])

\* C9: in filler mode without user videos the curated terms up to the cap
\* are searched once each in list order; a search returning nothing or
\* raising is skipped without failing the job; the URL list returned is that
\* of the terms that succeeded, in term order.
C9_FillerSearchSkipsFailures ==
    FillerSearchMode =>
        /\ Len(searched) <= Min2(max_videos, NumSportsTerms)
        /\ \A k \in DOMAIN searched : searched[k].term = sports_search_terms[k]
        /\ remote_urls = FoundUrls
        /\ err # "SearchError"
        /\ err = "ValueError: No sports videos available" => FoundUrls = <<>>
        /\ (pc \in {"subway_sources", "subway_gather"} \/ PastAcquisition) =>
              /\ Len(searched) = Min2(max_videos, NumSportsTerms)
              /\ subway_surfers_urls = FoundUrls
              /\ FoundUrls # <<>>

C9_Witness ==
    /\ FillerSearchMode
    /\ pc = "subway_sources"
    /\ Len(searched) = 2
    /\ searched[1].result = Raised
    /\ searched[2].result \in Urls
    /\ subway_surfers_urls = <<searched[2].result>>

\* C10: when acquisition ends with no usable resource the job fails with a
\* no-resources error, and the balancer is never entered with an empty pool.
C10_NoResourcesFailsBeforeBalancer ==
    /\ (pc \in {"balance", "while", "for", "render", "done"}) => video_paths # <<>>
    /\ (/\ pc = "failed"
        /\ tasks # <<>>
        /\ \A k \in DOMAIN tasks : tasks[k].state = "raised"
        /\ video_paths = <<>>) => err \in NoResourceErrors

\* C11: narration is synthesized one sentence at a time in sentence order:
\* a call is issued only when every earlier call has completed, one
\* segment is produced per sentence, and segment i is that of sentence i.
C11_SequentialSynthesis ==
    /\ Len(synth_calls) <= Len(sentences)
    /\ \A k \in DOMAIN synth_calls : synth_calls[k].sentence = sentences[k]
    /\ \A k \in 1..(Len(synth_calls) - 1) : synth_calls[k].state = "done"
    /\ Len(data) = Cardinality({k \in DOMAIN synth_calls : synth_calls[k].state = "done"})
    /\ \A k \in DOMAIN data : data[k] = synth_calls[k].real_duration
    /\ (pc \in {"balance", "while", "for", "render", "done"}) =>
          Len(data) = Len(sentences)

C11_Witness ==
    /\ pc = "synth"
    /\ Len(sentences) = 2
    /\ Len(synth_calls) = 2
    /\ synth_calls[1].state = "done"
    /\ synth_calls[2].state = "pending"
    /\ Len(data) = 1

\* C12: a fatal failure of a stage ends the job with that stage's error; no
\* later stage has run, no render on partial narration, and the renderer is
\* not invoked in a job that failed before the render.
C12_FailureIsTerminal ==
    /\ err # "" => pc = "failed"
    /\ pc = "failed" => err # ""
    /\ (pc = "failed" /\ err # "RenderError") => rendered = 0
    /\ rendered > 0 => Len(data) = Len(sentences)
    /\ (pc = "failed" /\ err \in {"ScriptError",
                                  "ValueError: No prompt or sentence provided"}) =>
          /\ sentences = <<>> /\ searched = <<>> /\ tasks = <<>> /\ video_paths = <<>>
          /\ calls.generate_search_terms = 0
          /\ synth_calls = <<>> /\ calls.generate_subtitles = 0 /\ final_clips = <<>>
    /\ (pc = "failed" /\ err \in NoResourceErrors) =>
          /\ video_paths = <<>>
          /\ synth_calls = <<>> /\ calls.generate_subtitles = 0 /\ final_clips = <<>>
    /\ (pc = "failed" /\ err = "SynthError") =>
          /\ synth_calls[Len(synth_calls)].state = "raised"
          /\ Len(data) = Len(synth_calls) - 1
          /\ calls.generate_subtitles = 0 /\ cues = <<>> /\ final_clips = <<>>
    /\ (pc = "failed" /\ err = "ConcatError") =>
          /\ Len(data) = Len(sentences)
          /\ calls.generate_subtitles = 0 /\ cues = <<>> /\ final_clips = <<>>
    /\ (pc = "failed" /\ err = "SubtitleError") =>
          /\ calls.generate_subtitles = 1
          /\ temp_videoclip = <<>> /\ final_clips = <<>>

C12_Witness ==
    /\ pc = "failed"
    /\ err = "SynthError"
    /\ Len(sentences) = 2
    /\ Len(data) = 1
    /\ rendered = 0

\* the stage of start() a position belongs to
Stage(p) ==
    CASE p \in {"start", "script"} -> 1
      [] p = "split" -> 2
      [] p \in {"background", "subway_videos", "subway_search", "subway_sources",
                "subway_gather", "topic_terms", "topic_search", "topic_gather",
                "check_paths"} -> 3
      [] p = "synth" -> 4
      [] p \in {"balance", "while", "for"} -> 6
      [] p = "render" -> 7
      [] p = "done" -> 8
      [] OTHER -> 9

\* C13: the stages occur in the order script, split, background and
\* narration, subtitles, balance, render, done, none entered twice;
\* balancing and render begin only after the background acquisition and the
\* synthesis of every sentence have completed.
C13_StageOrder ==
    /\ [][Stage(pc') >= Stage(pc)]_vars
    /\ [](/\ calls.generate_script <= 1
          /\ calls.generate_subtitles <= 1
          /\ rendered <= 1
          /\ Stage(pc) >= 2 /\ pc # "failed" =>
                (config.prompt => calls.generate_script = 1)
          /\ Stage(pc) \in {6, 7, 8} =>
                /\ video_paths # <<>>
                /\ \A k \in DOMAIN tasks : tasks[k].state # "pending"
                /\ Len(data) = Len(sentences)
                /\ \A k \in DOMAIN synth_calls : synth_calls[k].state = "done"
                /\ calls.generate_subtitles = 1
                /\ Len(cues) = Len(sentences)
          /\ Stage(pc) \in {7, 8} => tot_dur >= video_duration
          /\ pc = "done" => rendered = 1)

C13_Witness ==
    /\ pc = "done"
    /\ Len(sentences) = 2
    /\ tasks # <<>>
    /\ rendered = 1

\* the attempts of the current call that did not return the sentence count
FailedAttempts ==
    {j \in DOMAIN s2i.attempts :
        s2i.attempts[j] = Missing \/ s2i.attempts[j] # Len(s2i.sentences)}

\* C14: sentences_to_images is attempted at most 3 times per call; an
\* attempt whose description count differs from the sentence count is
\* followed by a 5-second wait and another attempt, and after the third
\* failed attempt nothing more is attempted and the error reaches the caller.
C14_AtMostThreeAttempts ==
    /\ Len(s2i.attempts) <= 3
    /\ s2i.pc = "wait" =>
          /\ Len(s2i.attempts) \in 1..2
          /\ FailedAttempts = DOMAIN s2i.attempts
          /\ s2i.slept = 5 * (Len(s2i.attempts) - 1)
    /\ s2i.pc = "attempt" =>
          /\ Len(s2i.attempts) \in 0..2
          /\ FailedAttempts = DOMAIN s2i.attempts
          /\ s2i.slept = 5 * Len(s2i.attempts)
    /\ s2i.pc = "raised" =>
          /\ Len(s2i.attempts) = 3
          /\ FailedAttempts = DOMAIN s2i.attempts
          /\ s2i.slept = 5 * 2
          /\ s2i.result.image_prompts = <<>>

C14_Witness ==
    /\ s2i.pc = "raised"
    /\ Len(s2i.sentences) = 2
    /\ s2i.attempts = <<1, 3, Missing>>

\* C15: when attempts 1..k-1 mismatch and attempt k (k <= 3) returns the
\* sentence count, the call returns after exactly k-1 waits, with one
\* description per sentence, paired with the sentences it was given.
C15_SuccessOnAttemptK ==
    s2i.pc = "returned" =>
        LET k == Len(s2i.attempts)
        IN /\ k \in 1..3
           /\ s2i.attempts[k] = Len(s2i.sentences)
           /\ FailedAttempts = 1..(k - 1)
           /\ s2i.slept = 5 * (k - 1)
           /\ s2i.result.sentences = s2i.sentences
           /\ Len(s2i.result.image_prompts) = Len(s2i.sentences)

C15_Witness ==
    /\ s2i.pc = "returned"
    /\ Len(s2i.sentences) = 2
    /\ s2i.attempts = <<1, 3, 2>>
    /\ s2i.slept = 10

\* the URLs of the download tasks, in task order
TaskUrls == [k \in DOMAIN tasks |-> tasks[k].url]

\* the remote entries of a source list, in list order
RemoteEntries(src) == SelectPos(src, [j \in DOMAIN src |-> IsRemote(src[j])])

\* what C16 says of every call but the downloads: each is made at most once
CallsMadeOnce ==
    /\ calls.download_audio <= 1
    /\ calls.generate_script <= 1
    /\ calls.generate_search_terms <= 1
    /\ calls.generate_subtitles <= 1
    /\ Len(searched) <= Len(search_terms)
    /\ \A k \in DOMAIN searched : searched[k].term = search_terms[k]
    /\ \A j, k \in DOMAIN search_terms : search_terms[j] = search_terms[k] => j = k
    /\ Len(synth_calls) <= Len(sentences)
    /\ \A k \in DOMAIN synth_calls : synth_calls[k].sentence = sentences[k]
    /\ rendered <= 1

C17_ConfigErrorBeforeAnyCall ==
    (pc = "failed" /\ err = "ValueError: No prompt or sentence provided") =>
        /\ ~config.prompt /\ ~config.script
        /\ calls.download_audio = 0
        /\ background_music_path = NoResult
        /\ calls.generate_script = 0
        /\ calls.generate_search_terms = 0
        /\ searched = <<>> /\ tasks = <<>>
        /\ synth_calls = <<>> /\ calls.generate_subtitles = 0
        /\ rendered = 0

\* the config names its background videos itself
ExplicitPaths == config.video_paths # <<>>

FillerUserVideos == FillerMode /\ config.subway_surfers_videos # <<>>

FillerPositions == {"subway_videos", "subway_search", "subway_sources", "subway_gather"}

TopicPositions == {"topic_terms", "topic_search", "topic_gather"}

\* C18: with explicit video paths, or user videos in filler mode, neither
\* search-term generation nor a video search is invoked and the pool holds
\* only supplied entries; the mode is explicit paths, else filler, else
\* topic search, and only the chosen mode's steps run.
C18_FixedListNeverSearches ==
    /\ (ExplicitPaths \/ FillerUserVideos) =>
          /\ calls.generate_search_terms = 0
          /\ search_terms = <<>> /\ searched = <<>> /\ remote_urls = <<>>
    /\ ExplicitPaths =>
          /\ video_paths \in {<<>>, config.video_paths}
          /\ PastAcquisition => video_paths = config.video_paths
          /\ tasks = <<>> /\ subway_surfers_urls = <<>>
          /\ pc \notin FillerPositions \cup TopicPositions
    /\ FillerUserVideos =>
          /\ subway_surfers_urls \in {<<>>, config.subway_surfers_videos}
          /\ TaskUrls \in {<<>>, RemoteEntries(config.subway_surfers_videos)}
          /\ \A k \in DOMAIN video_paths :
                \E j \in DOMAIN config.subway_surfers_videos :
                   video_paths[k] = IF IsRemote(config.subway_surfers_videos[j])
                                    THEN PathOf(config.subway_surfers_videos[j])
                                    ELSE config.subway_surfers_videos[j]
    /\ pc \in FillerPositions => FillerMode
    /\ subway_surfers_urls # <<>> => FillerMode
    /\ pc \in TopicPositions => TopicMode
    /\ calls.generate_search_terms > 0 => TopicMode
    /\ searched # <<>> => (TopicMode \/ FillerSearchMode)
    /\ tasks # <<>> => ~ExplicitPaths

C18_Witness ==
    /\ ExplicitPaths
    /\ config.use_subway_surfers_background
    /\ pc = "done"
    /\ video_paths = config.video_paths
    /\ searched = <<>>

\* C19: there is one cue per sentence; cue i starts at the sum of the
\* durations of the segments before i and ends at the sum up to i, so the
\* first cue starts at 0, each cue starts where the previous one ends, and
\* the last cue ends at the narration total used as the video duration.
C19_CuesCumulative ==
    /\ cues # <<>> =>
          /\ Len(cues) = Len(sentences)
          /\ Len(cues) = Len(data)
          /\ cues[1].start = 0
          /\ \A i \in DOMAIN cues :
                /\ cues[i].text = sentences[i]
                /\ cues[i].end = cues[i].start + data[i]
                /\ cues[i].start = SumSeq(SubSeq(data, 1, i - 1))
                /\ i > 1 => cues[i].start = cues[i - 1].end
    /\ pc \in {"balance", "while", "for", "render", "done"} =>
          Len(cues) = Len(sentences)
    /\ pc \in {"while", "for", "render", "done"} =>
          video_duration = IF cues = <<>> THEN 0 ELSE cues[Len(cues)].end

C19_Witness ==
    /\ pc = "render"
    /\ Len(cues) = 2
    /\ data = <<3, 4>>
    /\ cues[2].start = 3
    /\ cues[2].end = 7
    /\ video_duration = 7

\* C20: the validation after the fetch keeps exactly the downloaded files
\* that exist and have at least 1024 bytes: such a file is in the pool, a
\* missing or smaller one is not.
C20_KeepsFilesOfAtLeast1KiB ==
    (FillerMode /\ (pc = "check_paths" \/ PastAcquisition)) =>
        \A k \in DOMAIN tasks :
           tasks[k].state = "done" =>
              (PathOf(tasks[k].url) \in Range(video_paths)
                  <=> Usable(PathOf(tasks[k].url)))

\* the paths the download tasks returned, duplicates included
DownloadedPaths == [k \in DOMAIN tasks |-> PathOf(tasks[k].url)]

\* what C21 says of the pool: the set() of line 240 leaves a non-empty pool
\* holding each distinct downloaded path exactly once
DedupedPoolComplete ==
    (TopicMode /\ tasks # <<>> /\ (pc = "check_paths" \/ PastAcquisition)) =>
        /\ video_paths # <<>>
        /\ Range(video_paths) = Range(DownloadedPaths)
        /\ \A j, k \in DOMAIN video_paths : video_paths[j] = video_paths[k] => j = k

\* C21: in topic-search mode the de-duplicated pool is non-empty and holds
\* each distinct downloaded path exactly once, and the balancer run on it
\* ends with sub-clips whose total reaches the narration total.
C21_DedupNeverStarves ==
    /\ []DedupedPoolComplete
    /\ (TopicMode /\ pc = "balance") ~>
          (pc = "render" /\ tot_dur >= video_duration)

\* C22: when generate_subtitles is called, the durations passed are as many
\* as the sentences and duration i is the measured duration of the segment
\* synthesized for sentence i; the length-mismatch precondition violation
\* never occurs.
C22_DurationsParallelToSentences ==
    /\ err # "PreconditionError: sentences and durations differ in length"
    /\ calls.generate_subtitles > 0 =>
          /\ Len(SegmentDurations) = Len(sentences)
          /\ Len(synth_calls) = Len(sentences)
          /\ \A i \in DOMAIN sentences :
                /\ synth_calls[i].sentence = sentences[i]
                /\ synth_calls[i].state = "done"
                /\ SegmentDurations[i] = synth_calls[i].real_duration
    /\ cues # <<>> =>
          \A i \in DOMAIN cues :
             cues[i].end - cues[i].start = synth_calls[i].real_duration

C22_Witness ==
    /\ calls.generate_subtitles = 1
    /\ pc = "balance"
    /\ Len(sentences) = 2
    /\ synth_calls[1].real_duration = 4
    /\ synth_calls[2].real_duration = 3
    /\ SegmentDurations = <<4, 3>>

\* C23: the sub-clip list handed to the renderer is empty exactly when the
\* narration total is 0; with a positive total there is at least one
\* sub-clip, and with total 0 the loop body never runs and the renderer is
\* invoked all the same.
C23_EmptyPlanIffZeroTotal ==
    /\ [](/\ pc \in {"render", "done"} =>
                (final_clips = <<>> <=> video_duration = 0)
          /\ rendered > 0 => (final_clips = <<>> <=> video_duration = 0)
          /\ pc = "for" => video_duration > 0
          /\ (pc \in {"while", "render", "done"} /\ video_duration = 0) =>
                (final_clips = <<>> /\ tot_dur = 0)
          /\ pc = "done" => rendered = 1)
    /\ [][(pc = "while" /\ video_duration = 0) => pc' = "render"]_vars
    /\ [][pc = "render" => rendered' = rendered + 1]_vars

C23_Witness ==
    /\ pc = "done"
    /\ sentences = <<>>
    /\ video_duration = 0
    /\ temp_videoclip # <<>>
    /\ final_clips = <<>>
    /\ rendered = 1

\* the downloaded paths the filler-mode validation keeps, in task order
KeptDownloads ==
    SelectPos(DownloadedPaths,
              [k \in DOMAIN tasks |-> tasks[k].state = "done"
                                        /\ ValidVideo(PathOf(tasks[k].url))])

Collected == pc = "check_paths" \/ PastAcquisition

\* C24: whatever the order in which the downloads of a batch complete or
\* fail, the verdict and the set of background paths are those fixed by the
\* results of the tasks, and paths are collected only when every task of
\* the batch has ended.
C24_BatchOutcomeOrderIndependent ==
    /\ (FillerMode /\ (Collected \/ err = "ValueError: No video paths found available")) =>
          /\ \A k \in DOMAIN tasks : tasks[k].state # "pending"
          /\ video_paths = valid_paths
          /\ \E n \in 0..Len(video_paths) :
                /\ SubSeq(video_paths, n + 1, Len(video_paths)) = KeptDownloads
                /\ \A k \in 1..n : video_paths[k] \in LocalFiles
          /\ PastAcquisition => video_paths # <<>>
          /\ err = "ValueError: No video paths found available" => video_paths = <<>>
    /\ (FillerMode /\ tasks # <<>>) => err # "DownloadError"
    /\ (TopicMode /\ Collected) =>
          /\ \A k \in DOMAIN tasks : tasks[k].state = "done"
          /\ Range(video_paths) = Range(DownloadedPaths)
    /\ (TopicMode /\ \E k \in DOMAIN tasks : tasks[k].state = "raised") =>
          /\ pc \in {"topic_gather", "failed"}
          /\ video_paths = <<>>
          /\ pc = "failed" => err = "DownloadError"
    /\ err = "DownloadError" =>
          (pc = "failed" /\ (config.background_audio_url
                                \/ \E k \in DOMAIN tasks : tasks[k].state = "raised"))

C24_Witness ==
    /\ FillerMode
    /\ pc = "check_paths"
    /\ Len(tasks) = 2
    /\ tasks[1].state = "raised"
    /\ tasks[2].state = "done"
    /\ fsize[PathOf(tasks[2].url)] = 2048
    /\ video_paths = <<PathOf(tasks[2].url)>>

====
